---- MODULE Spec2Model ----
(***************************************************************************)
(* Appointment admission of the Website Koning API (src/main.py):          *)
(* create_appointment validates a requested slot, counts the stored        *)
(* appointments that intersect the buffered slot, and inserts the new      *)
(* appointment.  Several requests run against one shared collection; the   *)
(* count query and the insert are two separate calls to the store.         *)
(* After a successful insert two notification mails are scheduled as       *)
(* background tasks (send_email), and list_appointments reads the          *)
(* collection back.                                                        *)
(*                                                                         *)
(* A datetime is a number of minutes on one naive clock, counted from a    *)
(* Monday 00:00, so that date(), weekday() and time() are computed from it *)
(* as the datetime library computes them.                                  *)
(***************************************************************************)
EXTENDS Integers, Sequences, FiniteSets, TLC

\* ---------------------------------------------------------------- bounds
NumRequests == 3

\* ------------------------------------------------------ policy constants
BUSINESS_START == 600
BUSINESS_END == 1020
SLOT_DURATION == 30
BUFFER == 15
MAX_CONCURRENT == 2

\* ------------------------------------------------------------- datetimes
MinutesPerDay == 1440

At(day, hour, minute) == day * MinutesPerDay + hour * 60 + minute

date(dt) == dt \div MinutesPerDay

\* 0 = Monday ... 6 = Sunday
weekday(dt) == date(dt) % 7

\* the time of day, in minutes after midnight
timeOf(dt) == dt % MinutesPerDay

Fri == 4
Sat == 5

\* Requested slots <<start, end>>: 30-minute slots at the edges of the
\* business day, on a Saturday and across midnight, and slots of other
\* lengths (negative, empty, 29 and 31 minutes).
Starts ==
    { At(Fri, 9, 45), At(Fri, 10, 0), At(Fri, 10, 45), At(Fri, 16, 30),
      At(Fri, 16, 45), At(Fri, 23, 45), At(Sat, 10, 0) }

Candidates ==
    { <<s, s + SLOT_DURATION>> : s \in Starts }
      \cup { <<At(Fri, 10, 0), At(Fri, 10, 0) + d>> : d \in {0 - 30, 0, 29, 31} }
      \cup { <<At(Sat, 10, 0), At(Sat, 10, 31)>> }

\* A smaller set of requested slots: a Friday slot and a Saturday slot.
BookingSlots ==
    { <<At(Fri, 10, 0), At(Fri, 10, 30)>>, <<At(Sat, 10, 0), At(Sat, 10, 30)>> }

\* Friday slots that touch, nearly touch or keep the buffer to one another:
\* 10:30 touches 10:00-10:30, 10:44 leaves 14 minutes, 10:45 leaves 15.
GapSlots ==
    { <<s, s + SLOT_DURATION>> :
        s \in { At(Fri, 10, 0), At(Fri, 10, 30), At(Fri, 10, 44), At(Fri, 10, 45) } }

\* Intervals for the conflict test alone: of 10 and of 30 minutes, starting
\* around the ends of the buffer of a 10:00-10:30 slot.
Intervals ==
    { [start |-> At(Fri, 10, 0) + o, end |-> At(Fri, 10, 0) + o + l] :
        o \in {0, 14, 15, 16, 30, 44, 45, 46, 60, 75}, l \in {10, 30} }

Requests == 1 .. NumRequests

\* Python's None in an Optional field
NULL == "None"

\* The contact data and metadata of two requesters; they differ in every
\* field.
Anna ==
    [name |-> "Anna", email |-> "anna@example.com", phone |-> "0611",
     note |-> NULL, source |-> "website", assigned_to |-> NULL]

Bob ==
    [name |-> "Bob", email |-> "bob@example.com", phone |-> "0622",
     note |-> "bel na 12 uur", source |-> "campaign", assigned_to |-> "nick"]

People == {Anna, Bob}

\* schemas.Appointment: the parsed request body
Appointment(c, p) ==
    [name |-> p.name, email |-> p.email, phone |-> p.phone,
     start |-> c[1], end |-> c[2],
     note |-> p.note, source |-> p.source, assigned_to |-> p.assigned_to]

\* a document of the collection: the fields of the Appointment under the
\* _id the store assigned
Document(i, a) ==
    [_id |-> i, name |-> a.name, email |-> a.email, phone |-> a.phone,
     start |-> a.start, end |-> a.end,
     note |-> a.note, source |-> a.source, assigned_to |-> a.assigned_to]

\* Variant: repr() in place of str().
str_Repr(i) == "ObjectId('" \o ToString(i) \o "')"

\* str(ObjectId)
str(i) == ToString(i)

\* Lines 275-277: an entry of the listing, the document with its _id popped
\* and id = str(_id) set
ListedDoc(d) ==
    [id |-> str(d._id), name |-> d.name, email |-> d.email, phone |-> d.phone,
     start |-> d.start, end |-> d.end,
     note |-> d.note, source |-> d.source, assigned_to |-> d.assigned_to]

\* the limit of get_documents("appointment", limit=200)
ListLimit == 200

\* Appointments already in the collection when the service starts: either
\* none, or two bookings of the Friday 10:00 slot (a full slot).
Seed ==
    { Document(i, Appointment(<<At(Fri, 10, 0), At(Fri, 10, 30)>>, Anna)) : i \in 1 .. 2 }

VARIABLES
    db,                 \* "none" (db is None) or "configured"
    appointment,        \* the documents of db["appointment"]
    pc,                 \* where each request's handler stands
    appt,               \* the Appointment each request carries
    overlapping_count,  \* the handler's local overlapping_count
    response,           \* the HTTP response of each request
    background,         \* the tasks each request added to BackgroundTasks
    calls,              \* the store calls each request has issued
    seen,               \* how many documents the collection held at the count
    smtp,               \* "none" (SMTP_HOST unset), or the server is "up" or "down"
    mail,               \* what send_email did for each task it ran
    listed,             \* the last answer of GET /api/appointments
    probe               \* a conflict test applied to two intervals

vars == <<db, appointment, pc, appt, overlapping_count, response, background, calls,
          seen, smtp, mail, listed, probe>>

\* the placeholder of a request that has not arrived
NoAppt ==
    Appointment(<<0, 0>>, [name |-> "", email |-> "", phone |-> "",
                           note |-> NULL, source |-> NULL, assigned_to |-> NULL])
NoResponse == [status_code |-> 0, body |-> [pending |-> TRUE]]

\* ------------------------------------------------------- Calendar policy
\* Variant: the closing time is tested on the start instead of the end.
within_business_hours_StartOnly(start_dt, end_dt) ==
    IF date(start_dt) # date(end_dt) THEN FALSE
    ELSE IF weekday(start_dt) > 4 THEN FALSE
    ELSE timeOf(start_dt) >= BUSINESS_START /\ timeOf(start_dt) <= BUSINESS_END

\* Variant: Saturday counts as a business day.
within_business_hours_Saturday(start_dt, end_dt) ==
    IF date(start_dt) # date(end_dt) THEN FALSE
    ELSE IF weekday(start_dt) > 5 THEN FALSE
    ELSE timeOf(start_dt) >= BUSINESS_START /\ timeOf(end_dt) <= BUSINESS_END

within_business_hours(start_dt, end_dt) ==
    IF date(start_dt) # date(end_dt) THEN FALSE
    ELSE IF weekday(start_dt) > 4 THEN FALSE
    ELSE timeOf(start_dt) >= BUSINESS_START /\ timeOf(end_dt) <= BUSINESS_END

\* Variant: the duration rule is tested before the range rule.
Validation_DurationFirst(a) ==
    IF (a.end - a.start) # SLOT_DURATION THEN "InvalidDuration"
    ELSE IF a.end <= a.start THEN "InvalidRange"
    ELSE IF ~within_business_hours(a.start, a.end) THEN "OutsideBusinessHours"
    ELSE "ok"

\* Variant: the duration rule only rejects slots shorter than 30 minutes.
Validation_LongSlots(a) ==
    IF a.end <= a.start THEN "InvalidRange"
    ELSE IF (a.end - a.start) < SLOT_DURATION THEN "InvalidDuration"
    ELSE IF ~within_business_hours(a.start, a.end) THEN "OutsideBusinessHours"
    ELSE "ok"

\* Variant: a request already assigned to a staff member skips the rules.
Validation_StaffBypass(a) ==
    IF a.assigned_to # NULL THEN "ok"
    ELSE IF a.end <= a.start THEN "InvalidRange"
    ELSE IF (a.end - a.start) # SLOT_DURATION THEN "InvalidDuration"
    ELSE IF ~within_business_hours(a.start, a.end) THEN "OutsideBusinessHours"
    ELSE "ok"

\* The three validation rules of create_appointment, in the order of the
\* code; "ok" when none raises.  The three names stand for the messages of
\* the three HTTPException(status_code=400).
Validation(a) ==
    IF a.end <= a.start THEN "InvalidRange"
    ELSE IF (a.end - a.start) # SLOT_DURATION THEN "InvalidDuration"
    ELSE IF ~within_business_hours(a.start, a.end) THEN "OutsideBusinessHours"
    ELSE "ok"

\* ----------------------------------------------------------- exceptions
HTTPException(code, detail) ==
    [type |-> "HTTPException", status_code |-> code, detail |-> detail]

\* what a failing pymongo call raises
StorageError == [type |-> "Exception", status_code |-> 0, detail |-> "StorageError"]

\* Variant: without the "except HTTPException: raise" clause.
except_clause_All500(e) == HTTPException(500, e.detail)

\* Lines 264-267: an HTTPException passes, any other exception becomes 500.
except_clause(e) ==
    IF e.type = "HTTPException" THEN e ELSE HTTPException(500, e.detail)

\* The response FastAPI sends for a raised HTTPException.
ErrorResponse(e) == [status_code |-> e.status_code, body |-> [detail |-> e.detail]]

\* The response of a returned dict.
OkResponse(b) == [status_code |-> 200, body |-> b]

\* ------------------------------------------------------------- the store
\* Variant: the branch for a missing database is absent.
db_is_None_Never == FALSE

db_is_None == db = "none"

\* Variant: the start of the window is not buffered.
buffered_start_NoBuffer(a) == a.start

buffered_start(a) == a.start - BUFFER
buffered_end(a) == a.end + BUFFER

\* Variant: $lte and $gte in place of $lt and $gt.
count_documents_Inclusive(docs, bs, be) ==
    Cardinality({ d \in docs : d.start <= be /\ d.end >= bs })

\* db["appointment"].count_documents({"$and": [start < be, end > bs]})
count_documents(docs, bs, be) ==
    Cardinality({ d \in docs : d.start < be /\ d.end > bs })

\* Lines 224-231 for one stored interval: whether the query of the candidate
\* counts it
Conflicts(stored, candidate) ==
    count_documents({stored}, buffered_start(candidate), buffered_end(candidate)) = 1

\* Variant: the slot is full only above the capacity.
SlotFull_Above(n) == n > MAX_CONCURRENT

SlotFull(n) == n >= MAX_CONCURRENT

\* create_document("appointment", appt): the store assigns a fresh id
NewId(docs) == Cardinality(docs) + 1

create_document(docs, a) == docs \cup { Document(NewId(docs), a) }

\* the id create_document returns: str(inserted_id)
InsertedId(docs) == ToString(NewId(docs))

\* get_documents("appointment", limit): the answers the store can give, the
\* whole collection when it holds no more than limit documents
get_documents(docs, limit) ==
    IF Cardinality(docs) <= limit THEN {docs}
    ELSE { S \in SUBSET docs : Cardinality(S) = limit }

\* ------------------------------------------------------- notifications
admin_recipients == {"nick@websitekoning.com", "amine@websitekoning.com"}

\* Lines 238-261: the two background.add_task(send_email, ...) calls
Notifications(a) ==
    << [fn |-> "send_email", subject |-> "Nieuwe afspraak", to |-> admin_recipients],
       [fn |-> "send_email", subject |-> "Bevestiging afspraak", to |-> {a.email}] >>

\* one call to the store, and whether it raised
Call(op, raised) == [op |-> op, raised |-> raised]

\* Variant: send_email without its try/except.
send_email_NoTry(host, delivery) ==
    IF host = "none" THEN "skipped"
    ELSE IF delivery = "ok" THEN "sent" ELSE "raised"

\* Lines 30-46: what one call of send_email does.  Without SMTP_HOST it
\* prints and returns; otherwise it sends, and an exception of smtplib is
\* caught and printed.
send_email(host, delivery) ==
    IF host = "none" THEN "skipped"
    ELSE IF delivery = "ok" THEN "sent" ELSE "error_logged"

\* ----------------------------------------------------------------- Init
Init ==
    /\ db \in {"none", "configured"}
    /\ appointment \in (IF db = "none" THEN {{}} ELSE {{}, Seed})
    /\ pc = [r \in Requests |-> "Idle"]
    /\ appt = [r \in Requests |-> NoAppt]
    /\ overlapping_count = [r \in Requests |-> 0]
    /\ response = [r \in Requests |-> NoResponse]
    /\ background = [r \in Requests |-> <<>>]
    /\ calls = [r \in Requests |-> <<>>]
    /\ seen = [r \in Requests |-> 0]
    /\ smtp = "none"
    /\ mail = [r \in Requests |-> <<>>]
    /\ listed = <<>>
    /\ probe = <<>>

\* -------------------------------------------------------------- actions
\* POST /api/appointments arrives with a parsed Appointment.
Receive(r) ==
    /\ pc[r] = "Idle"
    /\ \A q \in Requests : q < r => pc[q] # "Idle"
    /\ \E c \in Candidates : appt' = [appt EXCEPT ![r] = Appointment(c, Anna)]
    /\ pc' = [pc EXCEPT ![r] = "Received"]
    /\ UNCHANGED <<db, appointment, overlapping_count, response, background, calls>>
    /\ UNCHANGED <<seen, smtp, mail, listed, probe>>

\* Variant: the db is None branch comes before the validation rules.
Validate_DbFirst(r) ==
    /\ pc[r] = "Received"
    /\ LET v == Validation(appt[r]) IN
         IF db_is_None
         THEN /\ pc' = [pc EXCEPT ![r] = "Accepted"]
              /\ response' = [response EXCEPT ![r] =
                     OkResponse([status |-> "accepted", stored |-> FALSE])]
         ELSE IF v # "ok"
         THEN /\ pc' = [pc EXCEPT ![r] = "Rejected"]
              /\ response' = [response EXCEPT ![r] = ErrorResponse(HTTPException(400, v))]
         ELSE /\ pc' = [pc EXCEPT ![r] = "Validating"]
              /\ UNCHANGED response
    /\ UNCHANGED <<db, appointment, appt, overlapping_count, background, calls>>
    /\ UNCHANGED <<seen, smtp, mail, listed, probe>>

\* Lines 207-220: the validation rules, then the db is None branch.
Validate(r) ==
    /\ pc[r] = "Received"
    /\ LET v == Validation(appt[r]) IN
         IF v # "ok"
         THEN /\ pc' = [pc EXCEPT ![r] = "Rejected"]
              /\ response' = [response EXCEPT ![r] = ErrorResponse(HTTPException(400, v))]
         ELSE IF db_is_None
         THEN /\ pc' = [pc EXCEPT ![r] = "Accepted"]
              /\ response' = [response EXCEPT ![r] =
                     OkResponse([status |-> "accepted", stored |-> FALSE])]
         ELSE /\ pc' = [pc EXCEPT ![r] = "Validating"]
              /\ UNCHANGED response
    /\ UNCHANGED <<db, appointment, appt, overlapping_count, background, calls>>
    /\ UNCHANGED <<seen, smtp, mail, listed, probe>>

\* Variant: the appointment is written and announced before the capacity
\* test.
CountOverlapping_InsertFirst(r) ==
    /\ pc[r] = "Validating"
    /\ calls' = [calls EXCEPT ![r] = Append(@, Call("count_documents", FALSE))]
    /\ LET n == count_documents(appointment, buffered_start(appt[r]), buffered_end(appt[r])) IN
         /\ overlapping_count' = [overlapping_count EXCEPT ![r] = n]
         /\ appointment' = create_document(appointment, appt[r])
         /\ background' = [background EXCEPT ![r] = Notifications(appt[r])]
         /\ IF SlotFull(n)
            THEN /\ pc' = [pc EXCEPT ![r] = "Rejected"]
                 /\ response' = [response EXCEPT ![r] =
                        ErrorResponse(except_clause(HTTPException(409, "SlotFull")))]
            ELSE /\ pc' = [pc EXCEPT ![r] = "Persisted"]
                 /\ response' = [response EXCEPT ![r] =
                        OkResponse([id |-> InsertedId(appointment), status |-> "ok"])]
    /\ seen' = [seen EXCEPT ![r] = Cardinality(appointment)]
    /\ UNCHANGED <<db, appt, smtp, mail, listed, probe>>

\* Lines 224-233: the overlap count query returns and the capacity test
\* raises HTTPException(409) or lets the request through.
CountOverlapping(r) ==
    /\ pc[r] = "Validating"
    /\ calls' = [calls EXCEPT ![r] = Append(@, Call("count_documents", FALSE))]
    /\ LET n == count_documents(appointment, buffered_start(appt[r]), buffered_end(appt[r])) IN
         /\ overlapping_count' = [overlapping_count EXCEPT ![r] = n]
         /\ IF SlotFull(n)
            THEN /\ pc' = [pc EXCEPT ![r] = "Rejected"]
                 /\ response' = [response EXCEPT ![r] =
                        ErrorResponse(except_clause(HTTPException(409, "SlotFull")))]
            ELSE /\ pc' = [pc EXCEPT ![r] = "Admitted"]
                 /\ UNCHANGED response
    /\ seen' = [seen EXCEPT ![r] = Cardinality(appointment)]
    /\ UNCHANGED <<db, appointment, appt, background, smtp, mail, listed, probe>>

\* Line 226 raises: the query fails and the except clauses answer.
CountFails(r) ==
    /\ pc[r] = "Validating"
    /\ calls' = [calls EXCEPT ![r] = Append(@, Call("count_documents", TRUE))]
    /\ pc' = [pc EXCEPT ![r] = "PersistFailed"]
    /\ response' = [response EXCEPT ![r] = ErrorResponse(except_clause(StorageError))]
    /\ UNCHANGED <<db, appointment, appt, overlapping_count, background>>
    /\ UNCHANGED <<seen, smtp, mail, listed, probe>>

\* Variant: the insert replaces the stored appointments of the same start.
Insert_Upsert(r) ==
    /\ pc[r] = "Admitted"
    /\ calls' = [calls EXCEPT ![r] = Append(@, Call("create_document", FALSE))]
    /\ appointment' =
          create_document({ d \in appointment : d.start # appt[r].start }, appt[r])
    /\ background' = [background EXCEPT ![r] = Notifications(appt[r])]
    /\ pc' = [pc EXCEPT ![r] = "Persisted"]
    /\ response' = [response EXCEPT ![r] =
           OkResponse([id |-> InsertedId(appointment), status |-> "ok"])]
    /\ UNCHANGED <<db, appt, overlapping_count, seen, smtp, mail, listed, probe>>

\* Lines 235-263: the insert, the two notification tasks, the response.
Insert(r) ==
    /\ pc[r] = "Admitted"
    /\ calls' = [calls EXCEPT ![r] = Append(@, Call("create_document", FALSE))]
    /\ appointment' = create_document(appointment, appt[r])
    /\ background' = [background EXCEPT ![r] = Notifications(appt[r])]
    /\ pc' = [pc EXCEPT ![r] = "Persisted"]
    /\ response' = [response EXCEPT ![r] =
           OkResponse([id |-> InsertedId(appointment), status |-> "ok"])]
    /\ UNCHANGED <<db, appt, overlapping_count, seen, smtp, mail, listed, probe>>

\* Variant: a failed insert sends the handler back to the count query.
InsertFails_Retry(r) ==
    /\ pc[r] = "Admitted"
    /\ calls' = [calls EXCEPT ![r] = <<>>]
    /\ pc' = [pc EXCEPT ![r] = "Validating"]
    /\ UNCHANGED <<db, appointment, appt, overlapping_count, background, response>>
    /\ UNCHANGED <<seen, smtp, mail, listed, probe>>

\* Variant: the notifications are scheduled before the insert is attempted.
InsertFails_NotifiesFirst(r) ==
    /\ pc[r] = "Admitted"
    /\ calls' = [calls EXCEPT ![r] = Append(@, Call("create_document", TRUE))]
    /\ background' = [background EXCEPT ![r] = Notifications(appt[r])]
    /\ pc' = [pc EXCEPT ![r] = "PersistFailed"]
    /\ response' = [response EXCEPT ![r] = ErrorResponse(except_clause(StorageError))]
    /\ UNCHANGED <<db, appointment, appt, overlapping_count>>
    /\ UNCHANGED <<seen, smtp, mail, listed, probe>>

\* Line 235 raises: the insert fails and the except clauses answer.
InsertFails(r) ==
    /\ pc[r] = "Admitted"
    /\ calls' = [calls EXCEPT ![r] = Append(@, Call("create_document", TRUE))]
    /\ pc' = [pc EXCEPT ![r] = "PersistFailed"]
    /\ response' = [response EXCEPT ![r] = ErrorResponse(except_clause(StorageError))]
    /\ UNCHANGED <<db, appointment, appt, overlapping_count, background>>
    /\ UNCHANGED <<seen, smtp, mail, listed, probe>>

\* POST /api/appointments with one of the smaller set of slots, from either
\* requester.
ReceiveBooking(r) ==
    /\ pc[r] = "Idle"
    /\ \A q \in Requests : q < r => pc[q] # "Idle"
    /\ \E c \in BookingSlots, p \in People :
          appt' = [appt EXCEPT ![r] = Appointment(c, p)]
    /\ pc' = [pc EXCEPT ![r] = "Received"]
    /\ UNCHANGED <<db, appointment, overlapping_count, response, background, calls>>
    /\ UNCHANGED <<seen, smtp, mail, listed, probe>>

\* POST /api/appointments with one of the closely spaced Friday slots.
ReceiveGap(r) ==
    /\ pc[r] = "Idle"
    /\ \A q \in Requests : q < r => pc[q] # "Idle"
    /\ \E c \in GapSlots : appt' = [appt EXCEPT ![r] = Appointment(c, Anna)]
    /\ pc' = [pc EXCEPT ![r] = "Received"]
    /\ UNCHANGED <<db, appointment, overlapping_count, response, background, calls>>
    /\ UNCHANGED <<seen, smtp, mail, listed, probe>>

\* A request that arrives while no other request is being handled.
ReceiveAlone(r) ==
    /\ \A q \in Requests : pc[q] \notin {"Received", "Validating", "Admitted"}
    /\ ReceiveGap(r)

\* Starlette runs the background tasks of a request in order once its
\* response is sent: the next task of request r calls send_email.
SendEmail(r) ==
    /\ response[r] # NoResponse
    /\ Len(mail[r]) < Len(background[r])
    /\ LET task == background[r][Len(mail[r]) + 1]
           delivery == IF smtp = "down" THEN "fails" ELSE "ok"
       IN  mail' = [mail EXCEPT ![r] =
                       Append(@, [to |-> task.to, result |-> send_email(smtp, delivery)])]
    /\ UNCHANGED <<db, appointment, pc, appt, overlapping_count, response, background,
                   calls, seen, smtp, listed, probe>>

\* Lines 269-278: GET /api/appointments answers [] without a database, and
\* otherwise the documents of get_documents with _id turned into id.
ListAppointments ==
    /\ IF db_is_None
       THEN listed' = OkResponse({})
       ELSE \E docs \in get_documents(appointment, ListLimit) :
                listed' = OkResponse({ ListedDoc(d) : d \in docs })
    /\ UNCHANGED <<db, appointment, pc, appt, overlapping_count, response, background,
                   calls, seen, smtp, mail, probe>>

\* Lines 279-280: get_documents raises and the listing answers 500.
ListFails ==
    /\ ~db_is_None
    /\ listed' = ErrorResponse(HTTPException(500, StorageError.detail))
    /\ UNCHANGED <<db, appointment, pc, appt, overlapping_count, response, background,
                   calls, seen, smtp, mail, probe>>

\* The conflict test applied to two intervals, each in turn as the stored
\* one and as the candidate.
Probe ==
    /\ \E x, y \in Intervals :
          probe' = [x |-> x, y |-> y, xy |-> Conflicts(x, y), yx |-> Conflicts(y, x)]
    /\ UNCHANGED <<db, appointment, pc, appt, overlapping_count, response, background,
                   calls, seen, smtp, mail, listed>>

Next ==
    \E r \in Requests :
        \/ Receive(r)
        \/ Validate(r)
        \/ CountOverlapping(r)
        \/ CountFails(r)
        \/ Insert(r)
        \/ InsertFails(r)

Spec == Init /\ [][Next]_vars

\* The booking handlers alone, with requests from both requesters.
NextBooking ==
    \E r \in Requests :
        \/ ReceiveBooking(r)
        \/ Validate(r)
        \/ CountOverlapping(r)
        \/ CountFails(r)
        \/ Insert(r)
        \/ InsertFails(r)

SpecBooking == Init /\ [][NextBooking]_vars

\* The booking handlers with closely spaced slots.
NextGap ==
    \E r \in Requests :
        \/ ReceiveGap(r)
        \/ Validate(r)
        \/ CountOverlapping(r)
        \/ CountFails(r)
        \/ Insert(r)
        \/ InsertFails(r)

SpecGap == Init /\ [][NextGap]_vars

\* The conflict test on pairs of intervals.
NextPair == Probe

SpecPair == Init /\ [][NextPair]_vars

\* The requests handled one at a time: a request arrives only when no other
\* handler is between its arrival and its response.
NextSeq ==
    \E r \in Requests :
        \/ ReceiveAlone(r)
        \/ Validate(r)
        \/ CountOverlapping(r)
        \/ CountFails(r)
        \/ Insert(r)
        \/ InsertFails(r)

SpecSeq == Init /\ [][NextSeq]_vars

\* The booking handlers and the listing.
NextList ==
    \/ \E r \in Requests :
          \/ ReceiveBooking(r)
          \/ Validate(r)
          \/ CountOverlapping(r)
          \/ CountFails(r)
          \/ Insert(r)
          \/ InsertFails(r)
    \/ ListAppointments
    \/ ListFails

SpecList == Init /\ [][NextList]_vars

\* Every store call returns or raises, and a handler that can take its next
\* step takes it: the event loop runs each handler to its end.
SpecLive ==
    /\ Init
    /\ [][NextBooking]_vars
    /\ \A r \in Requests :
          /\ WF_vars(Validate(r))
          /\ WF_vars(CountOverlapping(r) \/ CountFails(r))
          /\ WF_vars(Insert(r) \/ InsertFails(r))

\* The service with its notifications: SMTP is not configured, or its server
\* accepts or refuses the mails, and the background tasks run.
InitNotify ==
    /\ db \in {"none", "configured"}
    /\ appointment \in (IF db = "none" THEN {{}} ELSE {{}, Seed})
    /\ pc = [r \in Requests |-> "Idle"]
    /\ appt = [r \in Requests |-> NoAppt]
    /\ overlapping_count = [r \in Requests |-> 0]
    /\ response = [r \in Requests |-> NoResponse]
    /\ background = [r \in Requests |-> <<>>]
    /\ calls = [r \in Requests |-> <<>>]
    /\ seen = [r \in Requests |-> 0]
    /\ smtp \in {"none", "up", "down"}
    /\ mail = [r \in Requests |-> <<>>]
    /\ listed = <<>>
    /\ probe = <<>>

NextNotify ==
    \E r \in Requests :
        \/ ReceiveBooking(r)
        \/ Validate(r)
        \/ CountOverlapping(r)
        \/ CountFails(r)
        \/ Insert(r)
        \/ InsertFails(r)
        \/ SendEmail(r)

SpecNotify == InitNotify /\ [][NextNotify]_vars

TypeOK ==
    /\ db \in {"none", "configured"}
    /\ \A r \in Requests :
         /\ pc[r] \in {"Idle", "Received", "Validating", "Rejected", "Accepted",
                       "Admitted", "Persisted", "PersistFailed"}
         /\ response[r].status_code \in {0, 200, 400, 409, 500}
         /\ overlapping_count[r] \in 0 .. (NumRequests + 2)
         /\ Len(calls[r]) <= 2

\* ------------------------------------------------------------ properties
\* The policy as the specification words it: exactly 30 minutes, one
\* calendar date, Monday to Friday, from 10:00 and until 17:00.
MeetsPolicy(a) ==
    /\ a.end - a.start = 30
    /\ date(a.start) = date(a.end)
    /\ weekday(a.start) \in 0 .. 4
    /\ timeOf(a.start) >= 10 * 60
    /\ timeOf(a.end) <= 17 * 60

Slot(h, m) == [start |-> At(Fri, h, m), end |-> At(Fri, h, m) + 30]

\* the slot a request asks for
slot(r) == [start |-> appt[r].start, end |-> appt[r].end]

Status(r) == response[r].status_code

Detail(r) == IF Status(r) \in {400, 409, 500} THEN response[r].body.detail ELSE ""

\* every document of the collection was inserted by one of the requests
InitiallyEmpty ==
    Cardinality(appointment) = Cardinality({ r \in Requests : pc[r] = "Persisted" })

Raised(r) == \E i \in 1 .. Len(calls[r]) : calls[r][i].raised

\* the request passed the conflict check (whatever the insert did then)
Allowed(r) ==
    \/ pc[r] \in {"Admitted", "Persisted"}
    \/ pc[r] = "PersistFailed" /\ Len(calls[r]) = 2

\* C1: N requests for one valid slot on an empty calendar end with exactly
\* two persisted appointments and N-2 SlotFull rejections, under every
\* interleaving of their count and insert steps.
C1_ExactlyTwoPersisted ==
    ( /\ db = "configured"
      /\ InitiallyEmpty
      /\ \A r \in Requests : pc[r] \in {"Rejected", "Persisted"}
      /\ \A r \in Requests : slot(r) = Slot(10, 0) )
    => /\ Cardinality(appointment) = 2
       /\ Cardinality({ r \in Requests : Status(r) = 409 }) = NumRequests - 2

\* the persisted appointments whose buffered window contains the instant t
BufferedAt(t) ==
    { d \in appointment : d.start - BUFFER <= t /\ t <= d.end + BUFFER }

\* C2: in every reachable state no instant lies in the buffered windows of
\* more than CAPACITY persisted appointments.  (Windows that share an
\* instant share the latest of their left ends.)
C2_BufferedCapacity ==
    \A d \in appointment : Cardinality(BufferedAt(d.start - BUFFER)) <= MAX_CONCURRENT

\* C3: while the collection is empty, a request is let through exactly when
\* its slot meets the policy; 09:45 and 16:45 starts are rejected as
\* OutsideBusinessHours, 10:00 and 16:30 starts are let through.
C3_EmptyStoreAdmission ==
    (db = "configured" /\ appointment = {}) =>
        \A r \in Requests :
            /\ pc[r] \in {"Validating", "Admitted"} \/ Allowed(r) => MeetsPolicy(appt[r])
            /\ pc[r] = "Rejected" =>
                  /\ ~MeetsPolicy(appt[r])
                  /\ Status(r) = 400
                  /\ slot(r) \in {Slot(9, 45), Slot(16, 45)} =>
                        Detail(r) = "OutsideBusinessHours"
            /\ slot(r) \in {Slot(10, 0), Slot(16, 30)} => pc[r] # "Rejected"

C3_Witness ==
    /\ db = "configured" /\ appointment = {}
    /\ \E r, q, p \in Requests :
          /\ pc[r] = "Admitted" /\ slot(r) = Slot(16, 30)
          /\ pc[q] = "Rejected" /\ slot(q) = Slot(16, 45)
          /\ pc[p] = "Rejected" /\ slot(p) = Slot(9, 45)

\* C4: every persisted appointment is a 30-minute slot on one weekday
\* between 10:00 and 17:00, and no request outside the policy ever reaches
\* the insert.
C4_PersistedMeetPolicy ==
    /\ \A d \in appointment : MeetsPolicy(d)
    /\ \A r \in Requests :
          (pc[r] = "Admitted" \/ \E i \in 1 .. Len(calls[r]) : calls[r][i].op = "create_document")
              => MeetsPolicy(appt[r])

C4_Witness ==
    /\ \E d \in appointment : d.start = At(Fri, 16, 30) /\ d.end = At(Fri, 17, 0)
    /\ \E r \in Requests : pc[r] = "Rejected" /\ appt[r].start = At(Sat, 10, 0)
                           /\ appt[r].end = At(Sat, 10, 30)

\* C5: the rejection of a request is InvalidRange if end <= start, else
\* InvalidDuration if the length is not 30 minutes, else
\* OutsideBusinessHours if within_business_hours is false, else SlotFull if
\* the overlap count reached the capacity; the first three answer 400 and
\* SlotFull 409, and a request is never both rejected and let through.
C5_RejectionOrder ==
    \A r \in Requests :
        LET a == appt[r]
            counted == \E i \in 1 .. Len(calls[r]) :
                          calls[r][i] = Call("count_documents", FALSE)
        IN  pc[r] \notin {"Idle", "Received"} =>
              /\ (Status(r) = 400 /\ Detail(r) = "InvalidRange") <=> a.end <= a.start
              /\ (Status(r) = 400 /\ Detail(r) = "InvalidDuration")
                    <=> (a.end > a.start /\ a.end - a.start # 30)
              /\ (Status(r) = 400 /\ Detail(r) = "OutsideBusinessHours")
                    <=> (a.end > a.start /\ a.end - a.start = 30
                         /\ ~within_business_hours(a.start, a.end))
              /\ (Status(r) = 409 /\ Detail(r) = "SlotFull")
                    <=> (counted /\ overlapping_count[r] >= MAX_CONCURRENT)
              /\ Status(r) = 409 =>
                    (a.end > a.start /\ a.end - a.start = 30
                     /\ within_business_hours(a.start, a.end))
              /\ Status(r) \in {400, 409} <=> pc[r] = "Rejected"
              /\ pc[r] = "Rejected" => ~Allowed(r) /\ pc[r] # "Accepted"
              /\ Detail(r) \in {"InvalidRange", "InvalidDuration", "OutsideBusinessHours"}
                    => Status(r) = 400
              /\ Detail(r) = "SlotFull" => Status(r) = 409

C5_Witness ==
    \E r, q, p \in Requests :
        /\ Detail(r) = "InvalidRange" /\ appt[r].end = appt[r].start
        /\ Detail(q) = "InvalidDuration" /\ appt[q].start = At(Sat, 10, 0)
        /\ Detail(p) = "SlotFull" /\ Status(p) = 409

\* C6: a request rejected by a validation rule issues no store call,
\* neither the count query nor the insert; a 31-minute request is rejected
\* as InvalidDuration without any store call, whatever the store holds.
C6_ValidationWithoutStore ==
    \A r \in Requests :
        /\ Status(r) = 400 => calls[r] = <<>>
        /\ ~MeetsPolicy(appt[r]) => calls[r] = <<>>
        /\ (appt[r].end - appt[r].start = 31 /\ pc[r] \notin {"Idle", "Received"}) =>
              /\ pc[r] = "Rejected"
              /\ Status(r) = 400 /\ Detail(r) = "InvalidDuration"

C6_Witness ==
    /\ appointment # {}
    /\ \E r \in Requests :
          /\ appt[r].end - appt[r].start = 31
          /\ pc[r] = "Rejected" /\ Detail(r) = "InvalidDuration"
          /\ calls[r] = <<>>

\* the buffered window of the stored appointment d overlaps the slot a
BufferedOverlaps(d, a) ==
    d.start - BUFFER < a.end /\ a.start < d.end + BUFFER

\* the buffered window of the slot a intersects the stored appointment d
BufferedIntersects(a, d) ==
    a.start - BUFFER < d.end /\ d.start < a.end + BUFFER

CountReturns(r) ==
    pc[r] = "Validating" /\ pc'[r] \in {"Rejected", "Admitted"}

\* C7: when the count query returns with two (or more) stored appointments
\* whose buffered windows overlap the candidate, the candidate is rejected
\* with SlotFull (409); when the candidate's buffered window intersects no
\* stored appointment it is admitted, and its insert persists it.
C7_CapacityDecision ==
    [][ \A r \in Requests :
          /\ CountReturns(r) =>
               /\ Cardinality({ d \in appointment : BufferedOverlaps(d, appt[r]) }) >= 2
                     => /\ pc'[r] = "Rejected"
                        /\ response'[r] = [status_code |-> 409, body |-> [detail |-> "SlotFull"]]
               /\ (\A d \in appointment : ~BufferedIntersects(appt[r], d))
                     => pc'[r] = "Admitted"
          /\ (pc[r] = "Admitted" /\ pc'[r] = "Persisted") =>
               \E d \in appointment' \ appointment :
                   d.start = appt[r].start /\ d.end = appt[r].end
      ]_vars

C7_Witness ==
    \E r, q \in Requests :
        /\ pc[r] = "Rejected" /\ Status(r) = 409 /\ overlapping_count[r] = 2
        /\ Seed \subseteq appointment
        /\ \A d \in Seed : BufferedOverlaps(d, appt[r])
        /\ pc[q] = "Persisted" /\ overlapping_count[q] = 0
        /\ \A d \in Seed : ~BufferedIntersects(appt[q], d)
        /\ \E d \in appointment : d.start = appt[q].start /\ str(d._id) = response[q].body.id

RejectedNow(r) == pc[r] # "Rejected" /\ pc'[r] = "Rejected"

\* C8: a step that rejects a request (400 or 409) leaves the collection and
\* the scheduled notifications unchanged; the collection changes only by
\* adding the appointment of a request that was admitted; a rejected
\* request has no notification scheduled.
C8_RejectionWritesNothing ==
    /\ [][ /\ \A r \in Requests :
                RejectedNow(r) => appointment' = appointment /\ background' = background
           /\ appointment' # appointment =>
                \E r \in Requests :
                    /\ pc[r] = "Admitted" /\ pc'[r] = "Persisted"
                    /\ \E d \in appointment' :
                          /\ d \notin appointment
                          /\ d.start = appt[r].start /\ d.end = appt[r].end
                          /\ appointment' = appointment \cup {d}
         ]_vars
    /\ [](\A r \in Requests : pc[r] = "Rejected" => background[r] = <<>>)

C8_Witness ==
    /\ \E r, q \in Requests :
          /\ pc[r] = "Rejected" /\ Status(r) = 409 /\ background[r] = <<>>
          /\ pc[q] = "Rejected" /\ Status(q) = 400 /\ background[q] = <<>>
    /\ \E p \in Requests : pc[p] = "Persisted" /\ Len(background[p]) = 2
    /\ Cardinality(appointment) = 3

\* C9: without a configured database a request that passes validation is
\* answered {status: accepted, stored: false} with status 200, no store
\* call is made and nothing is persisted.
C9_NoDatabaseAccepted ==
    db = "none" =>
        /\ appointment = {}
        /\ \A r \in Requests :
              /\ calls[r] = <<>>
              /\ background[r] = <<>>
              /\ pc[r] \in {"Idle", "Received", "Rejected", "Accepted"}
              /\ (pc[r] \notin {"Idle", "Received"} /\ MeetsPolicy(appt[r])) =>
                    /\ pc[r] = "Accepted"
                    /\ response[r] = [status_code |-> 200,
                                      body |-> [status |-> "accepted", stored |-> FALSE]]
              /\ pc[r] = "Accepted" => MeetsPolicy(appt[r])

C9_Witness ==
    /\ db = "none"
    /\ \E r \in Requests :
          /\ pc[r] = "Accepted" /\ slot(r) = Slot(10, 0)
          /\ response[r].body = [status |-> "accepted", stored |-> FALSE]

\* C10: a request whose count query or insert raised is answered 500 and
\* is neither rejected (400/409) nor successful; a SlotFull rejection keeps
\* its 409; after a failed count query no insert is attempted; only a
\* raising store call gives 500.
C10_StorageErrorIs500 ==
    \A r \in Requests :
        /\ Raised(r) => /\ Status(r) = 500
                        /\ pc[r] = "PersistFailed"
                        /\ background[r] = <<>>
        /\ Status(r) = 500 => Raised(r)
        /\ ( /\ Len(calls[r]) >= 1
             /\ calls[r][1] = Call("count_documents", FALSE)
             /\ overlapping_count[r] >= MAX_CONCURRENT )
              => Status(r) = 409 /\ pc[r] = "Rejected"
        /\ (Len(calls[r]) >= 1 /\ calls[r][1].raised) => Len(calls[r]) = 1
        /\ Len(calls[r]) = 2 => calls[r][2].op = "create_document"

C10_Witness ==
    \E r, q, p \in Requests :
        /\ calls[r] = <<Call("count_documents", TRUE)>> /\ Status(r) = 500
        /\ calls[q] = <<Call("count_documents", FALSE), Call("create_document", TRUE)>>
        /\ Status(q) = 500
        /\ Status(p) = 409 /\ overlapping_count[p] = 2

\* C11: notifications are scheduled only by a successful insert, exactly two
\* per persisted booking, the first to the two administrative addresses and
\* the second to the requester's email; send_email never raises, whether
\* SMTP is absent or the delivery fails, and a step of send_email changes
\* neither a response nor the collection.
C11_Notifications ==
    /\ [](\A r \in Requests :
            /\ background[r] # <<>> =>
                 /\ pc[r] = "Persisted"
                 /\ calls[r][Len(calls[r])] = Call("create_document", FALSE)
            /\ pc[r] = "Persisted" =>
                 /\ Len(background[r]) = 2
                 /\ background[r][1].to = {"nick@websitekoning.com", "amine@websitekoning.com"}
                 /\ background[r][2].to = {appt[r].email}
                 /\ response[r] = [status_code |-> 200,
                                   body |-> [id |-> response[r].body.id, status |-> "ok"]]
                 /\ \E d \in appointment : str(d._id) = response[r].body.id
            /\ \A i \in 1 .. Len(mail[r]) :
                 /\ mail[r][i].to = background[r][i].to
                 /\ mail[r][i].result \in {"skipped", "sent", "error_logged"}
                 /\ smtp = "none" => mail[r][i].result = "skipped")
    /\ [][ /\ \A r \in Requests :
                background'[r] # background[r] =>
                    /\ pc[r] = "Admitted" /\ pc'[r] = "Persisted"
                    /\ appointment' # appointment
           /\ mail' # mail =>
                /\ response' = response
                /\ appointment' = appointment
                /\ pc' = pc
                /\ background' = background
         ]_vars

C11_Witness ==
    /\ smtp = "down"
    /\ \E r, q \in Requests :
          /\ pc[r] = "Persisted" /\ Len(mail[r]) = 2
          /\ mail[r][1].result = "error_logged" /\ mail[r][2].result = "error_logged"
          /\ mail[r][2].to = {"bob@example.com"}
          /\ Status(r) = 200
          /\ \E d \in appointment : str(d._id) = response[r].body.id /\ d.email = "bob@example.com"
          /\ pc[q] = "PersistFailed" /\ background[q] = <<>>

CountReturned(r) == Len(calls[r]) >= 1 /\ calls[r][1] = Call("count_documents", FALSE)

\* C12: two requests for the same start and end get the same outcome of the
\* validation rules, and, when their count queries ran against the same
\* collection, the same overlap count and the same decision, whatever their
\* name, email, phone, note, source and assigned_to.
C12_OutcomeIgnoresContact ==
    \A r, q \in Requests :
        (slot(r) = slot(q) /\ pc[r] \notin {"Idle", "Received"}
                           /\ pc[q] \notin {"Idle", "Received"}) =>
            /\ Status(r) = 400 <=> Status(q) = 400
            /\ Status(r) = 400 => Detail(r) = Detail(q)
            /\ pc[r] = "Accepted" <=> pc[q] = "Accepted"
            /\ (CountReturned(r) /\ CountReturned(q) /\ seen[r] = seen[q]) =>
                  /\ overlapping_count[r] = overlapping_count[q]
                  /\ Status(r) = 409 <=> Status(q) = 409
                  /\ Allowed(r) <=> Allowed(q)

C12_Witness ==
    \E r, q, p \in Requests :
        /\ slot(r) = slot(q)
        /\ appt[r].name # appt[q].name /\ appt[r].email # appt[q].email
        /\ appt[r].phone # appt[q].phone /\ appt[r].note # appt[q].note
        /\ appt[r].source # appt[q].source /\ appt[r].assigned_to # appt[q].assigned_to
        /\ CountReturned(r) /\ CountReturned(q) /\ seen[r] = seen[q]
        /\ Status(r) = 409 /\ Status(q) = 409
        /\ appt[p].assigned_to # NULL /\ Status(p) = 400

\* the steps of a request as the specification draws them; a request that
\* fails a validation rule goes from Received to Rejected in one step
ClaimedSteps ==
    { <<"Idle", "Received">>, <<"Received", "Validating">>, <<"Received", "Rejected">>,
      <<"Validating", "Rejected">>, <<"Validating", "Admitted">>,
      <<"Admitted", "Persisted">>, <<"Admitted", "PersistFailed">> }

\* the steps of the code: without a database a valid request is accepted
\* unstored, and a failing count query ends the request with 500
CodeSteps ==
    ClaimedSteps \cup { <<"Received", "Accepted">>, <<"Validating", "PersistFailed">> }

Follows(steps) ==
    \A r \in Requests : pc'[r] # pc[r] => <<pc[r], pc'[r]>> \in steps

Reaches(terminal) ==
    \A r \in Requests : (pc[r] = "Received") ~> (pc[r] \in terminal)

\* C13 as stated: every request follows Received -> Validating ->
\* {Rejected | Admitted} -> {Persisted | PersistFailed} and ends in Rejected,
\* Persisted or PersistFailed.
C13_ClaimedLifecycle ==
    /\ [][Follows(ClaimedSteps)]_vars
    /\ Reaches({"Rejected", "Persisted", "PersistFailed"})

\* C13, amended: every request follows Received -> {Rejected | Accepted |
\* Validating}, Validating -> {Rejected | PersistFailed | Admitted},
\* Admitted -> {Persisted | PersistFailed}; it eventually reaches one of the
\* terminal states Rejected, Accepted, Persisted, PersistFailed and stays
\* there with its response; the next step of a request is enabled whatever
\* the other requests do.
C13_Lifecycle ==
    /\ [][Follows(CodeSteps)]_vars
    /\ Reaches({"Rejected", "Accepted", "Persisted", "PersistFailed"})
    /\ [](\A r \in Requests :
            /\ pc[r] \in {"Rejected", "Accepted", "Persisted", "PersistFailed"}
                  <=> response[r] # NoResponse
            /\ pc[r] = "Received" => ENABLED Validate(r)
            /\ pc[r] = "Validating" => ENABLED CountOverlapping(r)
            /\ pc[r] = "Admitted" => ENABLED Insert(r))

C13_Witness ==
    /\ \E r, q, p \in Requests :
          /\ pc[r] = "Persisted"
          /\ pc[q] = "PersistFailed" /\ calls[q] = <<Call("count_documents", TRUE)>>
          /\ pc[p] = "Rejected"
    /\ \A r \in Requests : response[r] # NoResponse

\* C14: the collection is append-only: every step keeps every document as it
\* is, and a step that answers a listing leaves the collection and the
\* requests unchanged.
C14_AppendOnly ==
    [][ /\ appointment \subseteq appointment'
        /\ \A d \in appointment' \ appointment : \A e \in appointment : e._id # d._id
        /\ listed' # listed =>
              /\ appointment' = appointment
              /\ pc' = pc /\ response' = response /\ background' = background
      ]_vars

C14_Witness ==
    /\ Cardinality(appointment) = 2
    /\ listed # <<>> /\ listed.status_code = 200
    /\ Cardinality(listed.body) = 1
    /\ \E r \in Requests : pc[r] = "Rejected"

\* what a request submitted, under the id its response gave
Submitted(r) ==
    [id |-> response[r].body.id, name |-> appt[r].name, email |-> appt[r].email,
     phone |-> appt[r].phone, start |-> appt[r].start, end |-> appt[r].end]

Shown(e) ==
    [id |-> e.id, name |-> e.name, email |-> e.email,
     phone |-> e.phone, start |-> e.start, end |-> e.end]

Gap(d, a) ==
    IF d.start >= a.end THEN d.start - a.end
    ELSE IF a.start >= d.end THEN a.start - d.end
    ELSE 0 - 1

\* C16: the overlap count of a candidate is the number of stored
\* appointments less than 15 minutes away from it: one exactly 15 minutes
\* away is not counted, one touching or overlapping it is.
C16_CountWithinBuffer ==
    [][ \A r \in Requests :
          CountReturns(r) =>
              /\ overlapping_count'[r] =
                    Cardinality({ d \in appointment : Gap(d, appt[r]) < 15 })
              /\ overlapping_count'[r] =
                    Cardinality({ d \in appointment :
                                    /\ d.start < appt[r].end + 15
                                    /\ d.end > appt[r].start - 15 })
      ]_vars

C16_Witness ==
    \E r \in Requests :
        /\ CountReturned(r) /\ seen[r] = 2 /\ overlapping_count[r] = 1
        /\ \E d, e \in appointment :
              /\ d._id <= 2 /\ e._id <= 2
              /\ Gap(d, appt[r]) = 15
              /\ Gap(e, appt[r]) = 0

\* the two intervals, each padded by half the buffer on both sides, overlap
\* (strict test); times are doubled so that half of 15 minutes is whole
PaddedOverlap(x, y) ==
    /\ 2 * x.start - 15 < 2 * y.end + 15
    /\ 2 * y.start - 15 < 2 * x.end + 15

\* C17: for any two intervals X and Y, X conflicts with candidate Y exactly
\* when Y conflicts with candidate X, and exactly when X and Y padded by
\* BUFFER/2 on both sides overlap.
C17_SymmetricConflict ==
    probe # <<>> =>
        /\ probe.xy <=> probe.yx
        /\ probe.xy <=> PaddedOverlap(probe.x, probe.y)

C17_Witness ==
    /\ probe # <<>>
    /\ probe.x.end - probe.x.start = 10 /\ probe.y.end - probe.y.start = 30
    /\ Gap(probe.x, probe.y) = 14
    /\ probe.xy /\ probe.yx

\* the stored appointments whose interval [start, end) covers the instant t
CoveringAt(t) == { d \in appointment : d.start <= t /\ t < d.end }

\* C18: with requests handled one at a time, no instant is covered by the
\* intervals of more than CAPACITY stored appointments (intervals that share
\* an instant share the latest of their starts), and at its insert an
\* appointment has fewer than CAPACITY stored appointments within the buffer.
C18_SequentialCapacity ==
    /\ [](\A d \in appointment : Cardinality(CoveringAt(d.start)) <= 2)
    /\ [][ \A r \in Requests :
              (pc[r] = "Admitted" /\ pc'[r] = "Persisted") =>
                  Cardinality({ d \in appointment : Gap(d, appt[r]) < 15 }) < 2
         ]_vars

C18_Witness ==
    /\ \E d, e \in appointment :
          /\ d._id # e._id /\ d.start # e.start /\ Gap(d, e) < 0
          /\ \E r \in Requests :
                /\ Status(r) = 409
                /\ Gap(d, appt[r]) < 15
                /\ Gap(e, appt[r]) < 15
    /\ \A r \in Requests : response[r] # NoResponse

\* C19: without a database the validation rules still come first: a request
\* that fails one is answered 400 with its reason and is not acknowledged;
\* a valid request is acknowledged as not stored, with no count query, never
\* SlotFull, and with no notification scheduled.
C19_ValidationBeforeBackend ==
    db = "none" =>
        \A r \in Requests :
            pc[r] \notin {"Idle", "Received"} =>
                /\ Status(r) # 409 /\ Status(r) # 500
                /\ Validation(appt[r]) # "ok" =>
                      /\ pc[r] = "Rejected"
                      /\ response[r] = [status_code |-> 400,
                                        body |-> [detail |-> Validation(appt[r])]]
                /\ Status(r) = 400 => ~MeetsPolicy(appt[r])
                /\ Status(r) = 200 =>
                      /\ MeetsPolicy(appt[r])
                      /\ response[r].body = [status |-> "accepted", stored |-> FALSE]
                      /\ \A i \in 1 .. Len(calls[r]) : calls[r][i].op # "count_documents"
                      /\ overlapping_count[r] = 0 /\ seen[r] = 0
                      /\ background[r] = <<>>

C19_Witness ==
    /\ db = "none"
    /\ \E r, q, p \in Requests :
          /\ Status(r) = 400 /\ Detail(r) = "InvalidDuration"
          /\ Status(q) = 400 /\ Detail(q) = "OutsideBusinessHours"
          /\ Status(p) = 200 /\ response[p].body.stored = FALSE
====
